---- MODULE Spec2Model ----
(***************************************************************************)
(* Model of the OOP-metrics analyzer (src/src/analyzer.ts) and its entry   *)
(* point (src/unnamed/part_000).                                           *)
(*                                                                         *)
(* The TypeScript compiler is the external "semantic source provider".     *)
(* A program is a finite set of class types; the provider answers, for a   *)
(* type, its printed name, the position of its first declaration, its base *)
(* types and its visible property symbols.  The analyzer's registry        *)
(* (Analyzer.classes) is a sequence of ClassMetrics records; a reference   *)
(* to a ClassMetrics object is its index in that sequence (0 = null).      *)
(***************************************************************************)
EXTENDS Integers, Sequences, FiniteSets

VARIABLES program, todo, classes, status, last, analysis, output

vars == <<program, todo, classes, status, last, analysis, output>>

\* Number of class types of the analysed program.
NumTypes == 3

Types == 1 .. NumTypes

----------------------------------------------------------------------------
(* The provider: names, declaration sites, members.                        *)

ClassNameList == <<"A", "A", "B", "B", "C", "C", "D", "D">>
FileNameList == <<"a.ts", "b.ts">>

\* typeChecker.typeToString(classType): types 1,2 print as "A", 3,4 as "B", ...
typeToString(t) == ClassNameList[t]

\* The class declaration node of a type and the constructor node inside it.
ClassNode(t) == [kind |-> "ClassDeclaration", of |-> t]
CtorNode(t) == [kind |-> "Constructor", of |-> t]

\* classType.symbol.declarations: every modelled type has one declaration.
symbolDeclarations(t) == <<ClassNode(t)>>

\* node.getSourceFile().fileName and getLineAndCharacterOfPosition(getStart()),
\* 0-based: odd types live in a.ts, even types in b.ts, two lines apart.
SourcePosition(node) ==
    [fileName |-> FileNameList[((node.of - 1) % 2) + 1],
     line |-> 2 * ((node.of - 1) \div 2),
     character |-> 0]

\* The syntax kinds a member declaration can have.
MethodKind == "MethodDeclaration"
AttrKinds == {"PropertyDeclaration", "Parameter", "GetAccessor"}
OtherKinds == {"SetAccessor"}

\* A member declaration of class t.  A parameter property is a child of the
\* constructor; every other member is a child of the class declaration.
Member(t, name, kind, private) ==
    [owner |-> t, name |-> name, kind |-> kind, private |-> private,
     parent |-> IF kind = "Parameter" THEN CtorNode(t) ELSE ClassNode(t)]

\* Shapes of a class body: the members a class declares, in source order.
\* Each member is <<name, syntax kind, carries a private modifier>>.
BodyEmpty == <<>>
BodyM == << <<"m", "MethodDeclaration", TRUE>> >>
BodyMN == << <<"m", "MethodDeclaration", TRUE>>, <<"n", "MethodDeclaration", TRUE>> >>
BodyNK == << <<"n", "MethodDeclaration", FALSE>>, <<"k", "MethodDeclaration", FALSE>> >>
BodyXY == << <<"x", "Parameter", TRUE>>, <<"y", "PropertyDeclaration", FALSE>>,
             <<"s", "SetAccessor", TRUE>> >>
BodyXG == << <<"x", "Parameter", FALSE>>, <<"y", "PropertyDeclaration", TRUE>>,
             <<"m", "GetAccessor", FALSE>> >>

SmallBodies == {BodyEmpty, BodyMN}
AllBodies == {BodyEmpty, BodyM, BodyMN, BodyNK, BodyXY, BodyXG}

\* The member declarations of class t in the program.
declared(t) ==
    LET body == program.body[t]
    IN [i \in 1 .. Len(body) |-> Member(t, body[i][1], body[i][2], body[i][3])]

\* classType.getBaseTypes()
getBaseTypes(t) == program.bases[t]

SeqNames(s) == {s[i].name : i \in 1 .. Len(s)}

RECURSIVE FilterOut(_, _)
\* The elements of s whose name is not in names, in order.
FilterOut(s, names) ==
    IF s = <<>> THEN <<>>
    ELSE IF Head(s).name \in names THEN FilterOut(Tail(s), names)
         ELSE <<Head(s)>> \o FilterOut(Tail(s), names)

RECURSIVE getProperties(_)
\* classType.getProperties(): the members declared by the class, then the
\* members of the base class that the class does not redeclare; each symbol
\* stands for its first declaration.
getProperties(t) ==
    IF Len(getBaseTypes(t)) = 1
    THEN declared(t) \o FilterOut(getProperties(getBaseTypes(t)[1]), SeqNames(declared(t)))
    ELSE declared(t)

----------------------------------------------------------------------------
(* PropertyMetrics                                                         *)

\* new PropertyMetrics(propType)
NewPropertyMetrics(propType) ==
    [propType |-> propType, privateCount |-> 0,
     inherited |-> <<>>, overridden |-> <<>>, own |-> <<>>]

\* PropertyMetrics.allProps
allProps(pm) == pm.inherited \o pm.overridden \o pm.own

\* PropertyMetrics.length
length(pm) == Len(allProps(pm)) + pm.privateCount

\* PropertyMetrics.isOfType
isOfType(propType, propDecl) ==
    IF propType = "methods" THEN propDecl.kind = MethodKind
    ELSE propDecl.kind \in AttrKinds

\* PropertyMetrics.isPrivate
isPrivate(decl) == decl.private

\* parentProps.some(prop => prop.name.getText() === declName)
isInherited(parentProps, decl) ==
    \E i \in 1 .. Len(parentProps) : parentProps[i].name = decl.name

\* A variant that asks which class declares the member, not which node is
\* the parent of its declaration.
arrayForDeclaringClass(decl, t) ==
    IF decl.owner = t THEN "overridden" ELSE "inherited"

\* decl.parent === classDecl ? 'overridden' : 'inherited'
arrayFor(decl, t) ==
    IF decl.parent = symbolDeclarations(t)[1] THEN "overridden" ELSE "inherited"

\* The privateCount after one qualifying declaration.
countPrivate(pm, decl) ==
    IF isPrivate(decl) THEN pm.privateCount + 1 ELSE pm.privateCount

\* A variant without the `continue` after own.push(decl).
analyzePropNoContinue(pm, parentProps, decl, t) ==
    LET counted == [pm EXCEPT !.privateCount = countPrivate(pm, decl)]
        pushed == IF ~isInherited(parentProps, decl)
                  THEN [counted EXCEPT !.own = Append(@, decl)]
                  ELSE counted
    IN IF arrayFor(decl, t) = "overridden"
       THEN [pushed EXCEPT !.overridden = Append(@, decl)]
       ELSE [pushed EXCEPT !.inherited = Append(@, decl)]

\* One iteration of the loop of PropertyMetrics.analyze for a qualifying
\* declaration: count it if private, then push it on exactly one array.
analyzeProp(pm, parentProps, decl, t) ==
    LET counted == [pm EXCEPT !.privateCount = countPrivate(pm, decl)]
    IN IF ~isInherited(parentProps, decl)
       THEN [counted EXCEPT !.own = Append(@, decl)]
       ELSE IF arrayFor(decl, t) = "overridden"
            THEN [counted EXCEPT !.overridden = Append(@, decl)]
            ELSE [counted EXCEPT !.inherited = Append(@, decl)]

RECURSIVE analyzeLoopCountFirst(_, _, _, _)
\* A variant that counts a private declaration before the kind is tested.
analyzeLoopCountFirst(pm, parentProps, props, t) ==
    IF props = <<>> THEN pm
    ELSE LET counted == [pm EXCEPT !.privateCount = countPrivate(pm, Head(props))]
         IN IF ~isOfType(pm.propType, Head(props))
            THEN analyzeLoopCountFirst(counted, parentProps, Tail(props), t)
            ELSE analyzeLoopCountFirst(analyzeProp(pm, parentProps, Head(props), t),
                                       parentProps, Tail(props), t)

RECURSIVE analyzeLoop(_, _, _, _)
\* for (const prop of classType.getProperties()) { ... }
analyzeLoop(pm, parentProps, props, t) ==
    IF props = <<>> THEN pm
    ELSE IF ~isOfType(pm.propType, Head(props))
         THEN analyzeLoop(pm, parentProps, Tail(props), t)
         ELSE analyzeLoop(analyzeProp(pm, parentProps, Head(props), t),
                          parentProps, Tail(props), t)

\* PropertyMetrics.analyze(parentClass, classType); parent = 0 is null.
analyze(pm, cls, parent, t) ==
    LET parentProps == IF parent = 0 THEN <<>>
                       ELSE allProps(cls[parent][pm.propType])
    IN analyzeLoop(pm, parentProps, getProperties(t), t)

----------------------------------------------------------------------------
(* Analyzer: the registry and class resolution                             *)

\* new ClassMetrics()
NewClassMetrics ==
    [className |-> "", classPath |-> <<>>, parentClass |-> "",
     depthOfInheritance |-> 0, numberOfChildren |-> 0,
     methods |-> NewPropertyMetrics("methods"),
     attributes |-> NewPropertyMetrics("attributes")]

\* Analyzer.getAbsolutePosition: `${fileName}:${line + 1}:${character + 1}`
getAbsolutePosition(node) ==
    LET pos == SourcePosition(node)
    IN <<pos.fileName, pos.line + 1, pos.character + 1>>

\* typeDecl == null ? '' : this.getAbsolutePosition(typeDecl)
classPathOf(t) ==
    IF Len(symbolDeclarations(t)) = 0 THEN <<>>
    ELSE getAbsolutePosition(symbolDeclarations(t)[1])

\* A variant that compares the wrong field with the name.
sameIdentityWrongField(oneClass, className, classPath) ==
    oneClass.parentClass = className /\ oneClass.classPath = classPath

\* A variant that takes the name alone for the identity.
sameIdentityNameOnly(oneClass, className, classPath) ==
    oneClass.className = className

\* oneClass.className === className && oneClass.classPath === classPath
sameIdentity(oneClass, className, classPath) ==
    oneClass.className = className /\ oneClass.classPath = classPath

\* this.classes.find(...): index of the first entry with that identity, or 0.
findClass(cls, className, classPath) ==
    LET hits == {i \in 1 .. Len(cls) : sameIdentity(cls[i], className, classPath)}
    IN IF hits = {} THEN 0
       ELSE CHOOSE i \in hits : \A j \in hits : i <= j

\* A variant that counts the child on every entry named like the parent.
addChildByName(cls, parent) ==
    [i \in 1 .. Len(cls) |->
        IF cls[i].className = cls[parent].className
        THEN [cls[i] EXCEPT !.numberOfChildren = @ + 1]
        ELSE cls[i]]

\* parentClass.numberOfChildren += 1
addChild(cls, parent) ==
    [cls EXCEPT ![parent].numberOfChildren = @ + 1]

\* A variant that forgets the parent's own depth.
depthUnderOne(result, parentClass) == result.depthOfInheritance + 1

\* result.depthOfInheritance += 1 + parentClass.depthOfInheritance
depthUnder(result, parentClass) ==
    result.depthOfInheritance + 1 + parentClass.depthOfInheritance

\* Lines 96-106 of getClassMetrics, once the parent is known and counted:
\* the new entry, linked to the parent, with its methods and attributes
\* classified against the parent's.
newEntry(cls, parent, t) ==
    LET named == [NewClassMetrics EXCEPT !.className = typeToString(t),
                                         !.classPath = classPathOf(t)]
        linked == IF parent # 0
                  THEN [named EXCEPT
                          !.depthOfInheritance = depthUnder(named, cls[parent]),
                          !.parentClass = cls[parent].className]
                  ELSE named
        withMethods == [linked EXCEPT !.methods = analyze(@, cls, parent, t)]
    IN [withMethods EXCEPT !.attributes = analyze(@, cls, parent, t)]

\* A variant that registers with unshift: the new entry goes to the front.
registerAtFront(cls, parent, t) ==
    LET cls1 == IF parent # 0 THEN addChild(cls, parent) ELSE cls
    IN [classes |-> <<newEntry(cls1, parent, t)>> \o cls1, ret |-> 1, thrown |-> FALSE]

\* Lines 96-108 of getClassMetrics, once the parent is known: count the new
\* child on the parent, build the entry, push it on the registry.
register(cls, parent, t) ==
    LET cls1 == IF parent # 0 THEN addChild(cls, parent) ELSE cls
    IN [classes |-> Append(cls1, newEntry(cls1, parent, t)),
        ret |-> Len(cls1) + 1, thrown |-> FALSE]

\* baseTypes.length > 1
tooManyBases(baseTypes) == Len(baseTypes) > 1

RECURSIVE getClassMetrics(_, _)
\* Analyzer.getClassMetrics together with getParentClassMetrics (lines
\* 111-120): the registry afterwards, the entry returned, and whether the
\* call threw.
getClassMetrics(cls, t) ==
    LET found == findClass(cls, typeToString(t), classPathOf(t))
        baseTypes == getBaseTypes(t)
    IN IF found # 0 THEN [classes |-> cls, ret |-> found, thrown |-> FALSE]
       ELSE IF Len(baseTypes) = 0 THEN register(cls, 0, t)
       ELSE IF tooManyBases(baseTypes) THEN [classes |-> cls, ret |-> 0, thrown |-> TRUE]
       ELSE LET parent == getClassMetrics(cls, baseTypes[1])
            IN IF parent.thrown THEN parent
               ELSE register(parent.classes, parent.ret, t)

----------------------------------------------------------------------------
(* Analyzer.analyze: the aggregate ratios                                  *)

\* new MoodMetric()
NewMoodMetric == [divided |-> 0, divider |-> 0]

RECURSIVE GCD(_, _)
GCD(a, b) == IF b = 0 THEN a ELSE GCD(b, a % b)

NaN == [kind |-> "NaN", num |-> 0, den |-> 0]
Infinity == [kind |-> "Infinity", num |-> 0, den |-> 0]
Finite(n, d) == [kind |-> "finite", num |-> n \div GCD(n, d), den |-> d \div GCD(n, d)]

\* MoodMetric.calculate: the IEEE quotient divided / divider of two
\* non-negative integers, as a fraction in lowest terms, NaN (0/0) or
\* Infinity (x/0, x > 0).
calculate(m) ==
    IF m.divider = 0
    THEN (IF m.divided = 0 THEN NaN ELSE Infinity)
    ELSE Finite(m.divided, m.divider)

\* A variant that leaves the child count out of the POF denominator.
pofDividerOwnOnly(oneClass) == Len(oneClass.methods.own)

\* The POF denominator contributed by one class.
pofDivider(oneClass) == Len(oneClass.methods.own) * oneClass.numberOfChildren

\* The body of the loop of Analyzer.analyze (lines 55-66) for one class.
accumulate(acc, oneClass) ==
    LET totalMethods == length(oneClass.methods)
        totalAttrs == length(oneClass.attributes)
    IN [mif |-> [divided |-> acc.mif.divided + Len(oneClass.methods.inherited)
                                             + Len(oneClass.methods.own),
                 divider |-> acc.mif.divider + totalMethods],
        aif |-> [divided |-> acc.aif.divided + Len(oneClass.attributes.inherited)
                                             + Len(oneClass.attributes.own),
                 divider |-> acc.aif.divider + totalAttrs],
        mhf |-> [divided |-> acc.mhf.divided + oneClass.methods.privateCount,
                 divider |-> acc.mhf.divider + totalMethods],
        ahf |-> [divided |-> acc.ahf.divided + oneClass.attributes.privateCount,
                 divider |-> acc.ahf.divider + totalAttrs],
        pof |-> [divided |-> acc.pof.divided + Len(oneClass.methods.inherited)
                                             + Len(oneClass.methods.overridden),
                 divider |-> acc.pof.divider + pofDivider(oneClass)]]

RECURSIVE aggregateLoop(_, _)
\* for (const oneClass of this.classes) { ... }
aggregateLoop(acc, cls) ==
    IF cls = <<>> THEN acc
    ELSE aggregateLoop(accumulate(acc, Head(cls)), Tail(cls))

\* The five MoodMetric accumulators after the loop.
moodMetrics(cls) ==
    aggregateLoop([mif |-> NewMoodMetric, aif |-> NewMoodMetric, mhf |-> NewMoodMetric,
                   ahf |-> NewMoodMetric, pof |-> NewMoodMetric], cls)

\* The object returned by Analyzer.analyze (its classes field is the
\* registry itself).  The accumulators are kept beside the ratios.
analyzeResult(cls) ==
    LET m == moodMetrics(cls)
    IN [mif |-> calculate(m.mif), aif |-> calculate(m.aif), mhf |-> calculate(m.mhf),
        ahf |-> calculate(m.ahf), pof |-> calculate(m.pof), sums |-> m]

----------------------------------------------------------------------------
(* formatMetrics                                                           *)

\* The projection of one class; parentClass is left out when it is empty.
clearedClass(oneClass) ==
    IF oneClass.parentClass # ""
    THEN [className |-> oneClass.className,
          numberOfChildren |-> oneClass.numberOfChildren,
          depthOfInheritance |-> oneClass.depthOfInheritance,
          parentClass |-> oneClass.parentClass]
    ELSE [className |-> oneClass.className,
          numberOfChildren |-> oneClass.numberOfChildren,
          depthOfInheritance |-> oneClass.depthOfInheritance]

RECURSIVE reduceMax(_, _, _)
\* classes.reduce((max, c) => c[field] > max ? c[field] : max, start)
reduceMax(cls, field, maxNumber) ==
    IF cls = <<>> THEN maxNumber
    ELSE reduceMax(Tail(cls), field,
                   IF Head(cls)[field] > maxNumber THEN Head(cls)[field] ELSE maxNumber)

\* JSON.stringify of a number: NaN and Infinity are written as null.
jsonNumber(x) ==
    IF x.kind = "finite" THEN x ELSE [kind |-> "null", num |-> 0, den |-> 0]

\* formatMetrics(result)
formatMetrics(res, cls) ==
    [classes |-> [i \in 1 .. Len(cls) |-> clearedClass(cls[i])],
     mif |-> jsonNumber(res.mif), aif |-> jsonNumber(res.aif),
     mhf |-> jsonNumber(res.mhf), ahf |-> jsonNumber(res.ahf),
     pof |-> jsonNumber(res.pof),
     maxNumberOfChildren |-> reduceMax(cls, "numberOfChildren", 0),
     maxDepthOfInheritance |-> reduceMax(cls, "depthOfInheritance", 0)]

----------------------------------------------------------------------------
(* The programs analysed                                                   *)

\* A base type that is not a class of the program: an interface that a
\* declaration merged with the class extends.  It is never resolved.
Iface == 0

\* The base-type lists a type can have: none, one earlier class, or the two
\* interfaces of a merged declaration.
BasesFor(t) ==
    {<<>>, <<Iface, Iface>>} \cup {<<b>> : b \in 1 .. (t - 1)}

AllBases == UNION {BasesFor(t) : t \in Types}

Hierarchies == {f \in [Types -> AllBases] : \A t \in Types : f[t] \in BasesFor(t)}

\* The hierarchy of unrelated classes, and the single chain 1 <- 2 <- 3 ...
Chains ==
    {f \in Hierarchies : \/ \A t \in Types : f[t] = <<>>
                         \/ \A t \in Types : f[t] = IF t = 1 THEN <<>> ELSE <<t - 1>>}

Init ==
    /\ \/ program \in [bases : Hierarchies, body : [Types -> SmallBodies],
                       nodes : SUBSET Types]
       \/ program \in [bases : Chains, body : [Types -> AllBodies], nodes : {Types}]
    /\ todo = program.nodes
    /\ classes = <<>>
    /\ status = "traversing"
    /\ last = [type |-> 0, ret |-> 0]
    /\ analysis = <<>>
    /\ output = <<>>

----------------------------------------------------------------------------
(* Actions                                                                 *)

\* A variant that swallows the exception and goes on with the next node.
statusAfterSwallowed(thrown) == "traversing"

\* nodes.forEach(...) has no handler: an exception thrown for one node ends
\* the whole of analyze(), and with it the run.
statusAfter(thrown) == IF thrown THEN "failed" ELSE "traversing"

\* One class-like node of the traversal: Analyzer.analyzeClass calls
\* getClassMetrics for its type.  An exception leaves analyze() at once.
AnalyzeClass(t) ==
    /\ status = "traversing"
    /\ t \in todo
    /\ LET r == getClassMetrics(classes, t)
       IN /\ classes' = r.classes
          /\ last' = [type |-> t, ret |-> r.ret]
          /\ status' = statusAfter(r.thrown)
          /\ todo' = IF status' = "failed" THEN todo ELSE todo \ {t}
    /\ UNCHANGED <<program, analysis, output>>

\* The rest of Analyzer.analyze once every node has been visited.
Aggregate ==
    /\ status = "traversing"
    /\ todo = {}
    /\ analysis' = <<analyzeResult(classes)>>
    /\ status' = "aggregated"
    /\ UNCHANGED <<program, todo, classes, last, output>>

\* formatMetrics on the result, and console.log of the text.
Format ==
    /\ status = "aggregated"
    /\ output' = <<formatMetrics(analysis[1], classes)>>
    /\ status' = "printed"
    /\ UNCHANGED <<program, todo, classes, last, analysis>>

Next ==
    \/ \E t \in Types : AnalyzeClass(t)
    \/ Aggregate
    \/ Format

Spec == Init /\ [][Next]_vars

----------------------------------------------------------------------------
(* Vocabulary of the properties                                            *)

\* The type a registry entry stands for, by its identity.
TypeOf(entry) ==
    CHOOSE t \in Types : typeToString(t) = entry.className /\ classPathOf(t) = entry.classPath

\* The parent of a class in the program, 0 if it has none.
ParentType(t) == IF Len(getBaseTypes(t)) = 1 THEN getBaseTypes(t)[1] ELSE 0

\* The positions of the registry entries with the identity of type t.
EntriesOf(cls, t) ==
    {i \in 1 .. Len(cls) : cls[i].className = typeToString(t) /\ cls[i].classPath = classPathOf(t)}

\* The positions of the registry entries that are children of entry i.
ChildrenOf(cls, i) ==
    {j \in 1 .. Len(cls) : ParentType(TypeOf(cls[j])) = TypeOf(cls[i])}

Completed == status \in {"aggregated", "printed"}

----------------------------------------------------------------------------
(* C1 *)

\* C1: a traversal step for a class whose identity is already registered
\* returns the existing entry and leaves the registry as it is (nothing
\* added, no numberOfChildren changed); and after every step the registry
\* holds at most one entry per identity.
C1_ResolveIdempotent ==
    [][ /\ \A t \in Types :
             (AnalyzeClass(t) /\ EntriesOf(classes, t) # {})
                => /\ classes' = classes
                   /\ last'.ret \in EntriesOf(classes, t)
        /\ \A t \in Types : Cardinality(EntriesOf(classes', t)) <= 1 ]_vars

\* A class registered by an ancestor lookup (its child came first) is then
\* reached by the traversal itself: the call returned the earlier entry.
C1_Witness ==
    /\ last.ret >= 1
    /\ last.ret < Len(classes)
    /\ classes[last.ret].numberOfChildren = 1
    /\ \E j \in ChildrenOf(classes, last.ret) : j > last.ret

----------------------------------------------------------------------------
(* C2 *)

\* C2: when the analysis has completed, numberOfChildren of every registered
\* class is the number of registered classes whose parent it is.
C2_ChildCount ==
    Completed =>
        \A i \in 1 .. Len(classes) :
            classes[i].numberOfChildren = Cardinality(ChildrenOf(classes, i))

\* A completed analysis in which a class has two children, registered by an
\* ancestor lookup before one child and found again for the other.
C2_Witness ==
    /\ Completed
    /\ \E i \in 1 .. Len(classes) :
         /\ classes[i].numberOfChildren = 2
         /\ TypeOf(classes[i]) \notin program.nodes

----------------------------------------------------------------------------
(* C3 *)

\* C3: in every state, the depthOfInheritance of a registered class is 0 if
\* it has no parent and one more than its parent's otherwise.
C3_Depth ==
    \A i \in 1 .. Len(classes) :
        LET p == ParentType(TypeOf(classes[i]))
        IN IF p = 0 THEN classes[i].depthOfInheritance = 0
           ELSE \E j \in EntriesOf(classes, p) :
                    classes[i].depthOfInheritance = 1 + classes[j].depthOfInheritance

\* A class at depth 2: its parent has a parent.
C3_Witness ==
    \E i \in 1 .. Len(classes) :
        /\ classes[i].depthOfInheritance = 2
        /\ ParentType(ParentType(TypeOf(classes[i]))) # 0

----------------------------------------------------------------------------
(* C4 *)

RECURSIVE ReachesMultiple(_)
\* Type t, or one of the ancestors a resolution of t walks through, has two
\* or more direct base types.
ReachesMultiple(t) ==
    \/ Len(getBaseTypes(t)) > 1
    \/ Len(getBaseTypes(t)) = 1 /\ ReachesMultiple(getBaseTypes(t)[1])

\* C4: the traversal never gets past a node that reaches a class with two or
\* more base types; an analysis of a program with such a node never
\* completes; and a failed run has neither a result nor an output.
C4_MultipleInheritanceFails ==
    /\ status = "traversing" => \A t \in program.nodes \ todo : ~ReachesMultiple(t)
    /\ Completed => \A t \in program.nodes : ~ReachesMultiple(t)
    /\ status = "failed" =>
          /\ ReachesMultiple(last.type)
          /\ analysis = <<>>
          /\ output = <<>>
    /\ status # "printed" => output = <<>>

\* The run failed on a class whose ancestor (not the class itself) has two
\* base types, after other classes had been registered.
C4_Witness ==
    /\ status = "failed"
    /\ Len(classes) >= 1
    /\ Len(getBaseTypes(last.type)) = 1

----------------------------------------------------------------------------
(* C5, C6 *)

Range(s) == {s[i] : i \in 1 .. Len(s)}

\* The property declarations of type t that qualify for a bucket.
Qualifying(t, propType) ==
    {d \in Range(getProperties(t)) : isOfType(propType, d)}

PropTypes == {"methods", "attributes"}

\* C5: for every registered class and property kind, own, inherited and
\* overridden are pairwise disjoint, and every qualifying property of the
\* class is in exactly one of them, once.
C5_Disjoint ==
    \A i \in 1 .. Len(classes) : \A k \in PropTypes :
        LET pm == classes[i][k]
            q == Qualifying(TypeOf(classes[i]), k)
        IN /\ Range(pm.own) \cap Range(pm.inherited) = {}
           /\ Range(pm.own) \cap Range(pm.overridden) = {}
           /\ Range(pm.inherited) \cap Range(pm.overridden) = {}
           /\ Range(pm.own) \cup Range(pm.inherited) \cup Range(pm.overridden) = q
           /\ Len(pm.own) + Len(pm.inherited) + Len(pm.overridden) = Cardinality(q)

\* A class whose method bucket has an own, an inherited and an overridden
\* method at once.
C5_Witness ==
    \E i \in 1 .. Len(classes) :
        /\ classes[i].methods.own # <<>>
        /\ classes[i].methods.inherited # <<>>
        /\ classes[i].methods.overridden # <<>>

\* The names in the parent's own, inherited and overridden arrays of a kind
\* (none when the class has no parent).
ParentNames(cls, i, k) ==
    LET p == ParentType(TypeOf(cls[i]))
    IN IF p = 0 THEN {}
       ELSE UNION {SeqNames(allProps(cls[j][k])) : j \in EntriesOf(cls, p)}

\* C6: a qualifying property goes to own if its name is not among the
\* parent's properties of the kind; otherwise to overridden if the parent
\* node of its declaration is the class's own declaration, and to inherited
\* if not.  privateCount is the number of private qualifying properties,
\* whatever array they went to, and length() adds it to the three sizes.
C6_Classification ==
    \A i \in 1 .. Len(classes) : \A k \in PropTypes :
        LET t == TypeOf(classes[i])
            pm == classes[i][k]
            q == Qualifying(t, k)
            names == ParentNames(classes, i, k)
        IN /\ \A d \in q :
                IF d.name \notin names THEN d \in Range(pm.own)
                ELSE IF d.parent = ClassNode(t) THEN d \in Range(pm.overridden)
                     ELSE d \in Range(pm.inherited)
           /\ pm.privateCount = Cardinality({d \in q : d.private})
           /\ length(pm) = Cardinality(q) + Cardinality({d \in q : d.private})

\* The example of the claim: the parent declares one private method, the
\* subclass redeclares it and adds one new private method.
C6_Witness ==
    \E i \in 1 .. Len(classes) :
        LET pm == classes[i].methods
        IN /\ Len(pm.own) = 1 /\ pm.own[1].name = "n"
           /\ Len(pm.overridden) = 1 /\ pm.overridden[1].name = "m"
           /\ pm.inherited = <<>>
           /\ pm.privateCount = 2
           /\ length(pm) = 4
           /\ classes[i].depthOfInheritance = 1
           /\ \E j \in EntriesOf(classes, ParentType(TypeOf(classes[i]))) :
                 /\ classes[j].numberOfChildren = 1
                 /\ Len(allProps(classes[j].methods)) = 1
                 /\ classes[j].methods.privateCount = 1

----------------------------------------------------------------------------
(* C7 *)

RECURSIVE SumSeq(_)
SumSeq(s) == IF s = <<>> THEN 0 ELSE Head(s) + SumSeq(Tail(s))

RECURSIVE ProdSeq(_)
ProdSeq(s) == IF s = <<>> THEN 1 ELSE Head(s) * ProdSeq(Tail(s))

\* The per-class numerators and denominators of the five ratios; the child
\* count of the POF denominator is the number of registered children.
Numerators(cls, metric) ==
    [i \in 1 .. Len(cls) |->
        CASE metric = "mif" -> Len(cls[i].methods.inherited) + Len(cls[i].methods.own)
          [] metric = "aif" -> Len(cls[i].attributes.inherited) + Len(cls[i].attributes.own)
          [] metric = "mhf" -> cls[i].methods.privateCount
          [] metric = "ahf" -> cls[i].attributes.privateCount
          [] metric = "pof" -> Len(cls[i].methods.inherited) + Len(cls[i].methods.overridden)]

Denominators(cls, metric) ==
    [i \in 1 .. Len(cls) |->
        CASE metric \in {"mif", "mhf"} -> length(cls[i].methods)
          [] metric \in {"aif", "ahf"} -> length(cls[i].attributes)
          [] metric = "pof" -> Len(cls[i].methods.own) * Cardinality(ChildrenOf(cls, i))]

Metrics == {"mif", "aif", "mhf", "ahf", "pof"}

\* C7: each ratio of the result is the sum of the per-class numerators over
\* the sum of the per-class denominators, and NaN when that sum of
\* denominators is zero; the printed value is then null.
C7_AggregateRatios ==
    /\ analysis # <<>> =>
         \A metric \in Metrics :
            LET n == SumSeq(Numerators(classes, metric))
                d == SumSeq(Denominators(classes, metric))
            IN analysis[1][metric] = IF d = 0 THEN NaN ELSE Finite(n, d)
    /\ output # <<>> =>
         \A metric \in Metrics :
            (output[1][metric].kind = "null")
               <=> (SumSeq(Denominators(classes, metric)) = 0)

\* d[1] * ... * d[n] without the factor d[i].
ProdWithout(d, i) == ProdSeq([j \in 1 .. Len(d) |-> IF j = i THEN 1 ELSE d[j]])

\* With every per-class denominator positive: the aggregate ratio differs
\* from the mean of the per-class ratios (compared after multiplying both by
\* the number of classes, the total denominator and every denominator).
DiffersFromMean(n, d) ==
    /\ \A i \in 1 .. Len(d) : d[i] > 0
    /\ Len(d) * SumSeq(n) * ProdSeq(d)
         # SumSeq(d) * SumSeq([i \in 1 .. Len(d) |-> n[i] * ProdWithout(d, i)])

\* A result over classes of different sizes whose MHF is not the mean of the
\* per-class ratios, and whose POF has a zero total denominator.
C7_Witness ==
    /\ analysis # <<>>
    /\ DiffersFromMean(Numerators(classes, "mhf"), Denominators(classes, "mhf"))
    /\ SumSeq(Denominators(classes, "pof")) = 0
    /\ analysis[1].pof = NaN

\* A result whose POF denominator uses a child count above zero.
C7_WitnessChildren ==
    /\ analysis # <<>>
    /\ analysis[1].pof.kind = "finite"
    /\ analysis[1].pof.num > 0

----------------------------------------------------------------------------
(* C8 *)

\* The entries of cls2 after position Len(cls1) that are children of the
\* class of entry i.
NewChildren(cls1, cls2, i) ==
    {j \in (Len(cls1) + 1) .. Len(cls2) : ParentType(TypeOf(cls2[j])) = TypeOf(cls1[i])}

\* C8: every step keeps each registered entry in its place with the same
\* className, classPath, parentClass, depthOfInheritance, methods and
\* attributes; its numberOfChildren grows by one for a child registered in
\* the step, and is unchanged otherwise.
C8_EntryFrame ==
    [][ /\ Len(classes') >= Len(classes)
        /\ \A i \in 1 .. Len(classes) :
             /\ classes'[i].className = classes[i].className
             /\ classes'[i].classPath = classes[i].classPath
             /\ classes'[i].parentClass = classes[i].parentClass
             /\ classes'[i].depthOfInheritance = classes[i].depthOfInheritance
             /\ classes'[i].methods = classes[i].methods
             /\ classes'[i].attributes = classes[i].attributes
             /\ Cardinality(NewChildren(classes, classes', i)) <= 1
             /\ classes'[i].numberOfChildren =
                   classes[i].numberOfChildren
                     + Cardinality(NewChildren(classes, classes', i)) ]_vars

\* A registered class with members that has since received two children, the
\* second one from the last step.
C8_Witness ==
    \E i \in 1 .. Len(classes) :
        /\ classes[i].numberOfChildren = 2
        /\ classes[i].methods.own # <<>>
        /\ last.ret = Len(classes)
        /\ Len(classes) \in ChildrenOf(classes, i)
        /\ i < Len(classes) - 1

----------------------------------------------------------------------------
(* C9 *)

\* C9: in every state a registered class with a parent has its parent's
\* entry earlier in the registry; and the printed class list names the
\* parent of a class before the class.
C9_ParentFirst ==
    /\ \A i \in 1 .. Len(classes) :
         ParentType(TypeOf(classes[i])) # 0 =>
            \E j \in EntriesOf(classes, ParentType(TypeOf(classes[i]))) : j < i
    /\ output # <<>> =>
         \A i \in 1 .. Len(output[1].classes) :
            "parentClass" \in DOMAIN output[1].classes[i] =>
               \E j \in 1 .. (i - 1) :
                  output[1].classes[j].className = output[1].classes[i].parentClass

\* A printed list in which a class visited before its parent comes after it.
C9_Witness ==
    /\ output # <<>>
    /\ Len(output[1].classes) = NumTypes
    /\ \E i \in 1 .. Len(classes) :
          /\ classes[i].depthOfInheritance = 2
          /\ last.type = ParentType(ParentType(TypeOf(classes[i])))

----------------------------------------------------------------------------
(* C10 *)

\* C10: privateCount never exceeds the number of properties in the three
\* arrays, so twice privateCount never exceeds length(); and the hiding
\* factors of a result are at most one half.
C10_PrivateBound ==
    /\ \A i \in 1 .. Len(classes) : \A k \in PropTypes :
          /\ classes[i][k].privateCount <= Len(allProps(classes[i][k]))
          /\ 2 * classes[i][k].privateCount <= length(classes[i][k])
    /\ analysis # <<>> =>
          \A metric \in {"mhf", "ahf"} :
             /\ 2 * analysis[1].sums[metric].divided <= analysis[1].sums[metric].divider
             /\ analysis[1][metric].kind # "Infinity"
             /\ analysis[1][metric].kind = "finite" =>
                   2 * analysis[1][metric].num <= analysis[1][metric].den

\* A result in which every method is private: MHF is exactly one half.
C10_Witness ==
    /\ analysis # <<>>
    /\ analysis[1].mhf = Finite(1, 2)
    /\ analysis[1].sums.mhf.divided >= 3

====
